---- MODULE Spec2Model ----
(***************************************************************************)
(* Model of the per-connection session loop of handler_holding_binddn.go:  *)
(* handleConnectionAndSendBindDn, judgeBindDnIsEmpty, makeBindDnRequest    *)
(* and sendBindDnRequest.                                                  *)
(*                                                                         *)
(* One action models one iteration of the `handler:` loop for one kind of  *)
(* outcome of ber.ReadPacket / one case of the `switch req.Tag`.  The      *)
(* handler chains (HandleBindRequest, HandleSearchRequest, ...) and        *)
(* sendPacket are collaborators outside the file: their results (result    *)
(* code, send error or not) are inputs chosen by the environment.          *)
(*                                                                         *)
(* Go slices are 0-based, TLA+ sequences 1-based: Children[k] of the code  *)
(* is Children[k+1] here.                                                  *)
(***************************************************************************)
EXTENDS Integers, Sequences, FiniteSets, TLC

\* ---------------------------------------------------------------- bounds
\* number of messages the client sends before its stream ends
MaxMsgs == 3
\* number of registered close collaborators (server.CloseFns)
NumCloseFns == 2
\* largest message identifier a client uses (0 is also the synthetic id)
MaxMessageID == 1
\* largest number of entries a search handler streams
MaxEntries == 1
\* largest number of nodes of a packet tree judgeBindDnIsEmpty is called on
\* when it is checked on its own
MaxNodes == 4

\* ------------------------------------------------ ber / ldap constants
ClassUniversal == 0
ClassApplication == 64
ClassContext == 128
TypePrimitive == 0
TypeConstructed == 32
TagBoolean == 1
TagInteger == 2
TagOctetString == 4
TagSequence == 16

ApplicationBindRequest == 0
ApplicationBindResponse == 1
ApplicationUnbindRequest == 2
ApplicationSearchRequest == 3
ApplicationSearchResultEntry == 4
ApplicationSearchResultDone == 5
ApplicationModifyRequest == 6
ApplicationModifyResponse == 7
ApplicationAddRequest == 8
ApplicationAddResponse == 9
ApplicationDelRequest == 10
ApplicationDelResponse == 11
ApplicationModifyDNRequest == 12
ApplicationModifyDNResponse == 13
ApplicationCompareRequest == 14
ApplicationCompareResponse == 15
ApplicationAbandonRequest == 16
ApplicationExtendedRequest == 23
ApplicationExtendedResponse == 24

LDAPResultSuccess == 0
LDAPResultOperationsError == 1
LDAPResultInvalidCredentials == 49

\* result codes a handler chain may report
ResultCodes == {LDAPResultSuccess, LDAPResultOperationsError, LDAPResultInvalidCredentials}

\* ldaplib.BindDn, ldaplib.BindPass: the configured service identity
BindDn == "cn=service"
BindPass == "secret"

\* ---------------------------------------------------------- ber.Packet
\* Value of a packet: the dynamic type of the Go interface value and its
\* content.
NilValue == [type |-> "nil", s |-> "", n |-> 0]
StringValue(str) == [type |-> "string", s |-> str, n |-> 0]
Uint64Value(k) == [type |-> "uint64", s |-> "", n |-> k]

\* A ber.Packet: DataLen is p.Data.Len().
Packet(class, tagtype, tag, datalen, value, children) ==
    [ClassType |-> class, TagType |-> tagtype, Tag |-> tag,
     DataLen |-> datalen, Value |-> value, Children |-> children]

\* ber.Encode(class, type, tag, nil, _): no value, no data
Encode(class, tagtype, tag) == Packet(class, tagtype, tag, 0, NilValue, <<>>)

\* ber.NewString: Value is the string, Data its bytes
NewString(class, tagtype, tag, str) ==
    Packet(class, tagtype, tag, Len(str), StringValue(str), <<>>)

\* ber.NewInteger: Value is the uint64, Data its encoding (at least a byte)
NewInteger(class, tagtype, tag, k) ==
    Packet(class, tagtype, tag, 1, Uint64Value(k), <<>>)

\* p.AppendChild(child): the child's bytes (2 header bytes and its data)
\* are appended to p.Data, the child to p.Children
AppendChild(p, child) ==
    [p EXCEPT !.DataLen = @ + 2 + child.DataLen,
              !.Children = Append(@, child)]

\* A context-class primitive as the decoder delivers it: the decoder sets
\* Value for universal tags only.
ContextPrimitive(tag, str) ==
    Packet(ClassContext, TypePrimitive, tag, Len(str), NilValue, <<>>)

\* x.(string): the asserted string and ok; the zero value "" when not ok
AssertString(value) ==
    IF value.type = "string" THEN [v |-> value.s, ok |-> TRUE]
                             ELSE [v |-> "", ok |-> FALSE]

\* x.(uint64)
AssertUint64(value) ==
    IF value.type = "uint64" THEN [v |-> value.n, ok |-> TRUE]
                             ELSE [v |-> 0, ok |-> FALSE]

\* ber.ClassMap, ber.TypeMap, ber.TagMap (a missing key reads as "")
ClassMap(class) ==
    CASE class = ClassUniversal -> "Universal"
      [] class = ClassApplication -> "Application"
      [] class = ClassContext -> "Context"
      [] OTHER -> "Private"

TypeMap(tagtype) ==
    CASE tagtype = TypePrimitive -> "Primative"
      [] tagtype = TypeConstructed -> "Constructed"
      [] OTHER -> ""

TagMap(tag) ==
    CASE tag = TagBoolean -> "Boolean"
      [] tag = TagInteger -> "Integer"
      [] tag = TagOctetString -> "Octet String"
      [] tag = TagSequence -> "Sequence"
      [] OTHER -> ""

\* fmt.Sprintf("0x%02X", tag)
HexDigit(d) == SubSeq("0123456789ABCDEF", d + 1, d + 1)
Sprintf02X(tag) == "0x" \o HexDigit((tag \div 16) % 16) \o HexDigit(tag % 16)

\* the test of judgeBindDnIsEmpty on one node
IsEmptyOctetString(p) ==
    LET class == ClassMap(p.ClassType)
        tagtype == TypeMap(p.TagType)
        tag == IF p.ClassType = ClassUniversal THEN TagMap(p.Tag)
                                               ELSE Sprintf02X(p.Tag)
    IN  /\ class = "Universal"
        /\ tagtype = "Primative"
        /\ tag = "Octet String"
        /\ p.DataLen = 0

\* judgeBindDnIsEmpty(p, &result): the value of result afterwards
RECURSIVE judgeBindDnIsEmpty(_, _)
RECURSIVE judgeChildren(_, _, _)
judgeChildren(children, k, result) ==
    IF k > Len(children) THEN result
    ELSE judgeChildren(children, k + 1, judgeBindDnIsEmpty(children[k], result))

\* variant: the children are not visited
judgeBindDnIsEmptyRootOnly(p, result) == result \/ IsEmptyOctetString(p)

judgeBindDnIsEmpty(p, result) ==
    judgeChildren(p.Children, 1, result \/ IsEmptyOctetString(p))

\* variant: the password is put in the name field and the name in the
\* password field
makeBindDnRequestSwapped(username, password) ==
    LET messageID == 0
        packet0 == Encode(ClassUniversal, TypeConstructed, TagSequence)
        packet1 == AppendChild(packet0,
                       NewInteger(ClassUniversal, TypePrimitive, TagInteger, messageID))
        bindRequest0 == Encode(ClassApplication, TypeConstructed, ApplicationBindRequest)
        bindRequest1 == AppendChild(bindRequest0,
                       NewInteger(ClassUniversal, TypePrimitive, TagInteger, 3))
        bindRequest2 == AppendChild(bindRequest1,
                       NewString(ClassUniversal, TypePrimitive, TagOctetString, password))
        bindRequest3 == AppendChild(bindRequest2,
                       NewString(ClassContext, TypePrimitive, 0, username))
    IN  AppendChild(packet1, bindRequest3)

\* makeBindDnRequest(username, password)
makeBindDnRequest(username, password) ==
    LET messageID == 0
        packet0 == Encode(ClassUniversal, TypeConstructed, TagSequence)
        packet1 == AppendChild(packet0,
                       NewInteger(ClassUniversal, TypePrimitive, TagInteger, messageID))
        bindRequest0 == Encode(ClassApplication, TypeConstructed, ApplicationBindRequest)
        bindRequest1 == AppendChild(bindRequest0,
                       NewInteger(ClassUniversal, TypePrimitive, TagInteger, 3))
        bindRequest2 == AppendChild(bindRequest1,
                       NewString(ClassUniversal, TypePrimitive, TagOctetString, username))
        bindRequest3 == AppendChild(bindRequest2,
                       NewString(ClassContext, TypePrimitive, 0, password))
    IN  AppendChild(packet1, bindRequest3)


\* ------------------------------------------------- what a client sends
\* a universal primitive octet string as the decoder delivers it
OctetString(str) == NewString(ClassUniversal, TypePrimitive, TagOctetString, str)

\* the DNs a client binds with ("" is the anonymous bind)
ClientDNs == {"", "cn=alice", "cn=bob"}

\* the name field of a bind request: an octet string, or (malformed) an integer
NameNodes ==
    {OctetString(dn) : dn \in ClientDNs}
        \cup {NewInteger(ClassUniversal, TypePrimitive, TagInteger, 7)}

\* BindRequest ::= [APPLICATION 0] SEQUENCE { version, name, authentication }
BindRequestNode(name, password) ==
    AppendChild(
        AppendChild(
            AppendChild(Encode(ClassApplication, TypeConstructed, ApplicationBindRequest),
                        NewInteger(ClassUniversal, TypePrimitive, TagInteger, 3)),
            name),
        ContextPrimitive(0, password))

\* any other request: an application node with one non-empty field
RequestNode(tag) ==
    AppendChild(Encode(ClassApplication, TypeConstructed, tag), OctetString("dc=example"))

\* Controls ::= [0] SEQUENCE OF Control, here with one control whose
\* controlValue is the given octet string
ControlsNode(value) ==
    AppendChild(Encode(ClassContext, TypeConstructed, 0),
        AppendChild(
            AppendChild(Encode(ClassUniversal, TypeConstructed, TagSequence),
                        OctetString("1.2.840.113556.1.4.319")),
            OctetString(value)))

\* the children of an envelope after the operation node: none, or a controls list
ControlChoices == {<<>>, <<ControlsNode("cookie")>>, <<ControlsNode("")>>}

MessageIDs == 0 .. MaxMessageID

\* the operation tags the switch has a case for
RecognizedTags ==
    {ApplicationBindRequest, ApplicationSearchRequest, ApplicationUnbindRequest,
     ApplicationExtendedRequest, ApplicationAbandonRequest, ApplicationAddRequest,
     ApplicationModifyRequest, ApplicationDelRequest, ApplicationModifyDNRequest,
     ApplicationCompareRequest}

\* operation tags a client may send: the recognized ones and two others
ClientTags == RecognizedTags \cup {ApplicationBindResponse, ApplicationExtendedResponse}

\* bind requests: each name with a password, and one with an empty password
BindRequestNodes ==
    {BindRequestNode(name, "pw") : name \in NameNodes}
        \cup {BindRequestNode(OctetString("cn=alice"), "")}

\* LDAPMessage ::= SEQUENCE { messageID, protocolOp, controls [0] OPTIONAL }
Envelope(first, rest) ==
    [Encode(ClassUniversal, TypeConstructed, TagSequence) EXCEPT
        !.Children = <<first>> \o rest]

MessageIDNode(id) == NewInteger(ClassUniversal, TypePrimitive, TagInteger, id)

\* binds and searches come with each choice of controls, the rest without
WellFormedEnvelopes ==
    {Envelope(MessageIDNode(id), <<req>> \o ctl) :
        id \in MessageIDs,
        req \in BindRequestNodes \cup {RequestNode(ApplicationSearchRequest)},
        ctl \in ControlChoices}
    \cup
    {Envelope(MessageIDNode(id), <<RequestNode(tag)>>) :
        id \in MessageIDs,
        tag \in ClientTags \ {ApplicationBindRequest, ApplicationSearchRequest}}

\* envelopes that break the shape the loop checks for
MalformedEnvelopes ==
    {Envelope(MessageIDNode(id), <<>>) : id \in MessageIDs}
        \cup {Envelope(OctetString("1"), <<RequestNode(ApplicationSearchRequest)>>)}
        \cup {Envelope(MessageIDNode(id), <<OctetString("")>>) : id \in MessageIDs}
        \cup {Envelope(MessageIDNode(id),
                       <<Encode(ClassUniversal, TypeConstructed, TagSequence)>>) :
                 id \in MessageIDs}

Envelopes == WellFormedEnvelopes \cup MalformedEnvelopes

\* ---------------------------------------------------------------- state
VARIABLES
    boundDN,        \* the local boundDN ("" == anonymous)
    isSentBindDn,   \* the local isSentBindDn
    pc,             \* "loop": at the top of the handler loop; "iterated": at
                    \* the end of its body; "close": after the loop; "done"
    nread,          \* number of ber.ReadPacket calls so far
    packet,         \* <<p>>: the packet of this iteration; <<>>: none
    iter,           \* what this iteration did, in order
    pre,            \* boundDN, isSentBindDn and hist when this iteration began
    hist,           \* history of the connection (see Init)
    Stats,          \* server.Stats
    visited,        \* the CloseFns the range loop has been through
    closeCalls,     \* per close collaborator: number of Close calls
    closeArg,       \* per close collaborator: the boundDN it was given
    released,       \* conn.Close() has been called
    judge           \* a call of judgeBindDnIsEmpty on its own: the packet,
                    \* *result before and after, and whether it has returned

vars == <<boundDN, isSentBindDn, pc, nread, packet, iter, pre, hist, Stats,
          visited, closeCalls, closeArg, released, judge>>

CloseFns == 1 .. NumCloseFns

\* the identity argument of a chain that is given none (the bind chain)
NoIdentity == "<none>"

\* ----------------------------------------------------------------- events
Event(ev, kind, tag, id, code, arg, ok, syn, n) ==
    [ev |-> ev, kind |-> kind, tag |-> tag, id |-> id, code |-> code,
     arg |-> arg, ok |-> ok, syn |-> syn, n |-> n]

\* ber.ReadPacket returned: kind is "packet", "eof" or "error"
ReadEv(kind) == Event("read", kind, 0, 0, 0, "", kind = "packet", FALSE, 0)

\* a handler chain was called with identity arg and reported code; syn: the
\* call is made by sendBindDnRequest; n: controls (search) passed along
ChainEv(kind, syn, arg, code, n) == Event("chain", kind, 0, 0, code, arg, TRUE, syn, n)

\* sendPacket was called with a response of type tag for message id carrying
\* code; ok: it returned no error
SendEv(tag, id, code, ok, syn) == Event("send", "response", tag, id, code, "", ok, syn, 0)

\* error values of HandleSearchRequest: nil, or an *Error with a ResultCode
NoError == [nil |-> TRUE, ResultCode |-> LDAPResultSuccess]
ErrorWith(c) == [nil |-> FALSE, ResultCode |-> c]
SearchErrors == {NoError} \cup {ErrorWith(c) : c \in ResultCodes}

\* the search chain was called with identity arg and n controls and returned
\* err; ok: err is nil
SearchChainEv(arg, err, n) ==
    Event("chain", "search", 0, 0, err.ResultCode, arg, err.nil, FALSE, n)

\* the search handler streamed n entries to the connection
EntriesEv(id, n) == Event("entries", "search", ApplicationSearchResultEntry, id, 0, "", TRUE, FALSE, n)


\* --------------------------------------------------------- the handlers
\* What one pass through the loop body leaves behind: the events, the new
\* values of the locals and of the counters, and whether the loop is left
\* (break / break handler).
Outcome(events, dn, sent, stats, brk) ==
    [events |-> events, boundDN |-> dn, isSentBindDn |-> sent, Stats |-> stats,
     brk |-> brk]

countBinds(stats) == [stats EXCEPT !.Binds = @ + 1]
countSearches(stats) == [stats EXCEPT !.Searches = @ + 1]
countUnbinds(stats) == [stats EXCEPT !.Unbinds = @ + 1]

\* variant: the class of the operation node is not checked
SanityOKAnyClass(p) ==
    /\ Len(p.Children) >= 2
    /\ AssertUint64(p.Children[1].Value).ok

\* lines 31-45: the sanity check of a packet
SanityOK(p) ==
    /\ Len(p.Children) >= 2
    /\ AssertUint64(p.Children[1].Value).ok
    /\ p.Children[2].ClassType = ClassApplication

\* lines 47-52: the controls collected from the third child, if present
Controls(p) == IF Len(p.Children) > 2 THEN p.Children[3].Children ELSE <<>>

\* variant: messageID is never taken from the packet and stays 0
MessageIDOfUnset(p) == 0

\* line 36: messageID
MessageIDOf(p) == AssertUint64(p.Children[1].Value).v

\* line 213: the synthetic bind request (the same packet at every call)
bindDnPacket == makeBindDnRequest(BindDn, BindPass)

\* variant: *boundDN is assigned whatever the bind chain reports
sendBindDnRequestAssignsAlways(dn, stats, ldapResultCode, sendOk) ==
    LET bindDnReq == bindDnPacket.Children[2]
        asserted == AssertString(bindDnReq.Children[2].Value)
        success == ldapResultCode = LDAPResultSuccess
        messageID == AssertUint64(bindDnPacket.Children[1].Value).v
    IN  [boundDN |-> asserted.v,
         result |-> success /\ asserted.ok /\ sendOk,
         Stats |-> countBinds(stats),
         events |-> <<ChainEv("bind", TRUE, NoIdentity, ldapResultCode, 0),
                      SendEv(ApplicationBindResponse, messageID, ldapResultCode,
                             sendOk, TRUE)>>]

\* variant: a failed send of the bind response is logged only
sendBindDnRequestIgnoresSendError(dn, stats, ldapResultCode, sendOk) ==
    LET bindDnReq == bindDnPacket.Children[2]
        asserted == AssertString(bindDnReq.Children[2].Value)
        success == ldapResultCode = LDAPResultSuccess
        messageID == AssertUint64(bindDnPacket.Children[1].Value).v
    IN  [boundDN |-> IF success THEN asserted.v ELSE dn,
         result |-> success /\ asserted.ok,
         Stats |-> countBinds(stats),
         events |-> <<ChainEv("bind", TRUE, NoIdentity, ldapResultCode, 0),
                      SendEv(ApplicationBindResponse, messageID, ldapResultCode,
                             sendOk, TRUE)>>]

\* sendBindDnRequest(conn, &boundDN) called with *boundDN = dn and counters
\* stats, when the bind chain reports ldapResultCode and sendPacket succeeds
\* iff sendOk: the value left in *boundDN, the returned result, the counters
\* and the events
sendBindDnRequest(dn, stats, ldapResultCode, sendOk) ==
    LET bindDnReq == bindDnPacket.Children[2]
        asserted == AssertString(bindDnReq.Children[2].Value)
        success == ldapResultCode = LDAPResultSuccess
        messageID == AssertUint64(bindDnPacket.Children[1].Value).v
    IN  [boundDN |-> IF success THEN asserted.v ELSE dn,
         result |-> success /\ asserted.ok /\ sendOk,
         Stats |-> countBinds(stats),
         events |-> <<ChainEv("bind", TRUE, NoIdentity, ldapResultCode, 0),
                      SendEv(ApplicationBindResponse, messageID, ldapResultCode,
                             sendOk, TRUE)>>]

\* variant: the flag is handed to judgeBindDnIsEmpty by value, so the
\* caller's bindDnIsEmpty stays false
BindCaseForwardsByValue(p) == FALSE

\* lines 84-86: whether the bind case calls sendBindDnRequest, once the
\* bind response is sent
BindCaseForwards(p) == judgeBindDnIsEmpty(p, FALSE)

\* variant: the test of the flag is inverted
SearchCaseForwardsInverted == isSentBindDn

\* line 94: whether the search case calls sendBindDnRequest first
SearchCaseForwards == ~isSentBindDn

\* variant: the client's bind response is sent after the synthetic bind
BindCaseRespondsLast(p, ldapResultCode, sendOk, synCode, synSendOk) ==
    LET req == p.Children[2]
        messageID == MessageIDOf(p)
        stats1 == countBinds(Stats)
        success == ldapResultCode = LDAPResultSuccess
        asserted == AssertString(req.Children[2].Value)
        dn1 == IF success THEN asserted.v ELSE boundDN
        chain == ChainEv("bind", FALSE, NoIdentity, ldapResultCode, 0)
        send == SendEv(ApplicationBindResponse, messageID, ldapResultCode, sendOk, FALSE)
        fwd == sendBindDnRequest(dn1, stats1, synCode, synSendOk)
    IN  IF success /\ ~asserted.ok
        THEN Outcome(<<chain>>, dn1, isSentBindDn, stats1, TRUE)
        ELSE IF ~BindCaseForwards(p)
        THEN Outcome(<<chain, send>>, dn1, isSentBindDn, stats1, ~sendOk)
        ELSE IF ~fwd.result
        THEN Outcome(<<chain>> \o fwd.events, fwd.boundDN, isSentBindDn,
                     fwd.Stats, TRUE)
        ELSE Outcome(<<chain>> \o fwd.events \o <<send>>, fwd.boundDN, TRUE,
                     fwd.Stats, ~sendOk)

\* case ApplicationBindRequest, lines 67-92
BindCase(p, ldapResultCode, sendOk, synCode, synSendOk) ==
    LET req == p.Children[2]
        messageID == MessageIDOf(p)
        stats1 == countBinds(Stats)
        success == ldapResultCode = LDAPResultSuccess
        asserted == AssertString(req.Children[2].Value)
        dn1 == IF success THEN asserted.v ELSE boundDN
        chain == ChainEv("bind", FALSE, NoIdentity, ldapResultCode, 0)
        send == SendEv(ApplicationBindResponse, messageID, ldapResultCode, sendOk, FALSE)
        fwd == sendBindDnRequest(dn1, stats1, synCode, synSendOk)
    IN  IF success /\ ~asserted.ok
        THEN Outcome(<<chain>>, dn1, isSentBindDn, stats1, TRUE)
        ELSE IF ~sendOk
        THEN Outcome(<<chain, send>>, dn1, isSentBindDn, stats1, TRUE)
        ELSE IF ~BindCaseForwards(p)
        THEN Outcome(<<chain, send>>, dn1, isSentBindDn, stats1, FALSE)
        ELSE IF ~fwd.result
        THEN Outcome(<<chain, send>> \o fwd.events, fwd.boundDN, isSentBindDn,
                     fwd.Stats, TRUE)
        ELSE Outcome(<<chain, send>> \o fwd.events, fwd.boundDN, TRUE,
                     fwd.Stats, FALSE)

\* variant: after a handler error the loop is left only if the send fails
SearchDispatchContinuesOnError(p, dn, sent, stats, before, entries, err, sendOk) ==
    LET messageID == MessageIDOf(p)
        chain == SearchChainEv(dn, err, Len(Controls(p)))
        code == IF err.nil THEN LDAPResultSuccess ELSE err.ResultCode
        done == SendEv(ApplicationSearchResultDone, messageID, code, sendOk, FALSE)
        events == before \o <<chain, EntriesEv(messageID, entries), done>>
    IN  Outcome(events, dn, sent, countSearches(stats), ~sendOk)

\* lines 102-116: the search handler chain is called with identity dn, streams
\* entries, then returns err (nil or an *Error); the search done carries
\* success when err is nil and the error's ResultCode otherwise
SearchDispatch(p, dn, sent, stats, before, entries, err, sendOk) ==
    LET messageID == MessageIDOf(p)
        chain == SearchChainEv(dn, err, Len(Controls(p)))
        code == IF err.nil THEN LDAPResultSuccess ELSE err.ResultCode
        done == SendEv(ApplicationSearchResultDone, messageID, code, sendOk, FALSE)
        events == before \o <<chain, EntriesEv(messageID, entries), done>>
    IN  IF ~err.nil
        THEN Outcome(events, dn, sent, countSearches(stats), TRUE)
        ELSE Outcome(events, dn, sent, countSearches(stats), ~sendOk)

\* variant: isSentBindDn is not set after the synthetic bind
SearchCaseKeepsFlag(p, synCode, synSendOk, entries, err, sendOk) ==
    LET fwd == sendBindDnRequest(boundDN, Stats, synCode, synSendOk)
    IN  IF SearchCaseForwards
        THEN IF ~fwd.result
             THEN Outcome(fwd.events, fwd.boundDN, isSentBindDn, fwd.Stats, TRUE)
             ELSE SearchDispatch(p, fwd.boundDN, isSentBindDn, fwd.Stats, fwd.events,
                                 entries, err, sendOk)
        ELSE SearchDispatch(p, boundDN, isSentBindDn, Stats, <<>>,
                            entries, err, sendOk)

\* case ApplicationSearchRequest, lines 93-116
SearchCase(p, synCode, synSendOk, entries, err, sendOk) ==
    LET fwd == sendBindDnRequest(boundDN, Stats, synCode, synSendOk)
    IN  IF SearchCaseForwards
        THEN IF ~fwd.result
             THEN Outcome(fwd.events, fwd.boundDN, isSentBindDn, fwd.Stats, TRUE)
             ELSE SearchDispatch(p, fwd.boundDN, TRUE, fwd.Stats, fwd.events,
                                 entries, err, sendOk)
        ELSE SearchDispatch(p, boundDN, isSentBindDn, Stats, <<>>,
                            entries, err, sendOk)

\* case ApplicationUnbindRequest, lines 117-119
UnbindCase(p) == Outcome(<<>>, boundDN, isSentBindDn, countUnbinds(Stats), TRUE)

\* variant: the loop is left only when the abandon chain reports an error
AbandonCaseBreaksOnError(p, ldapResultCode) ==
    Outcome(<<ChainEv("abandon", FALSE, boundDN, ldapResultCode, 0)>>,
            boundDN, isSentBindDn, Stats, ldapResultCode # LDAPResultSuccess)

\* case ApplicationAbandonRequest, lines 127-129: the chain's result is dropped
AbandonCase(p, ldapResultCode) ==
    Outcome(<<ChainEv("abandon", FALSE, boundDN, ldapResultCode, 0)>>,
            boundDN, isSentBindDn, Stats, TRUE)

\* variant: the loop is also left when the chain reports a non-success code
ResponseCaseBreaksOnError(p, kind, responseTag, ldapResultCode, sendOk) ==
    Outcome(<<ChainEv(kind, FALSE, boundDN, ldapResultCode, 0),
              SendEv(responseTag, MessageIDOf(p), ldapResultCode, sendOk, FALSE)>>,
            boundDN, isSentBindDn, Stats,
            ~sendOk \/ ldapResultCode # LDAPResultSuccess)

\* the cases extended, add, modify, delete, modify-DN and compare
\* (lines 120-126 and 131-165): call the chain with boundDN, send the
\* response of type responseTag, leave the loop if that fails
ResponseCase(p, kind, responseTag, ldapResultCode, sendOk) ==
    Outcome(<<ChainEv(kind, FALSE, boundDN, ldapResultCode, 0),
              SendEv(responseTag, MessageIDOf(p), ldapResultCode, sendOk, FALSE)>>,
            boundDN, isSentBindDn, Stats, ~sendOk)

\* variant: the loop is left only when the send fails (break in place of
\* break handler)
UnsupportedCaseContinues(p, sendOk) ==
    Outcome(<<SendEv(ApplicationAddResponse, MessageIDOf(p), LDAPResultOperationsError,
                     sendOk, FALSE)>>,
            boundDN, isSentBindDn, Stats, ~sendOk)

\* default, lines 59-65
UnsupportedCase(p, sendOk) ==
    Outcome(<<SendEv(ApplicationAddResponse, MessageIDOf(p), LDAPResultOperationsError,
                     sendOk, FALSE)>>,
            boundDN, isSentBindDn, Stats, TRUE)


\* ------------------------------------------------------------- history
\* the positions of the events of evs that satisfy Test
Positions(evs, Test(_)) == {i \in 1 .. Len(evs) : Test(evs[i])}

IsSynBindChain(e) == e.ev = "chain" /\ e.kind = "bind" /\ e.syn
IsClientBindChain(e) == e.ev = "chain" /\ e.kind = "bind" /\ ~e.syn
IsSearchChain(e) == e.ev = "chain" /\ e.kind = "search"
IsChain(e) == e.ev = "chain"
IsSend(e) == e.ev = "send"
IsRead(e) == e.ev = "read"

\* a client bind that succeeded with a non-empty DN and with no empty
\* octet string anywhere in its envelope
IsCleanBind(p, out) ==
    /\ SanityOK(p)
    /\ p.Children[2].Tag = ApplicationBindRequest
    /\ out.events # <<>>
    /\ IsClientBindChain(out.events[1])
    /\ out.events[1].code = LDAPResultSuccess
    /\ AssertString(p.Children[2].Children[2].Value).ok
    /\ AssertString(p.Children[2].Children[2].Value).v # ""
    /\ ~judgeBindDnIsEmpty(p, FALSE)

\* the bind chain calls of an outcome that reported success
IsBindSuccess(e) == e.ev = "chain" /\ e.kind = "bind" /\ e.code = LDAPResultSuccess
SynBindSuccesses(out) == {i \in Positions(out.events, IsBindSuccess) : out.events[i].syn}
ClientBindSuccesses(out) == {i \in Positions(out.events, IsBindSuccess) : ~out.events[i].syn}

\* hist.synBinds: bind chain calls made by sendBindDnRequest so far
\* hist.cleanBind: a clean bind (IsCleanBind) has been processed
\* hist.lastBind: who made the latest bind chain call that reported success
\*   ("none", "client", or "syn" for sendBindDnRequest, which in an iteration
\*   comes after the client's bind)
\* hist.lastClientDN: the name read from the request of the latest client
\*   bind that reported success (line 71: "" when it is no string)
HistAfter(pkt, out) ==
    [synBinds |-> hist.synBinds + Cardinality(Positions(out.events, IsSynBindChain)),
     cleanBind |-> hist.cleanBind \/ (pkt # <<>> /\ IsCleanBind(pkt[1], out)),
     lastBind |-> IF SynBindSuccesses(out) # {} THEN "syn"
                  ELSE IF ClientBindSuccesses(out) # {} THEN "client"
                  ELSE hist.lastBind,
     lastClientDN |-> IF ClientBindSuccesses(out) # {}
                      THEN AssertString(pkt[1].Children[2].Children[2].Value).v
                      ELSE hist.lastClientDN]

\* ------------------------------------------------------------- actions
\* one pass through the loop: ber.ReadPacket returned (readKind), the body
\* ran with outcome out
Commit(pkt, readKind, out) ==
    /\ packet' = pkt
    /\ iter' = <<ReadEv(readKind)>> \o out.events
    /\ pre' = [boundDN |-> boundDN, isSentBindDn |-> isSentBindDn, hist |-> hist]
    /\ hist' = HistAfter(pkt, out)
    /\ boundDN' = out.boundDN
    /\ isSentBindDn' = out.isSentBindDn
    /\ Stats' = out.Stats
    /\ nread' = nread + 1
    /\ pc' = IF out.brk THEN "close" ELSE "iterated"
    /\ UNCHANGED <<visited, closeCalls, closeArg, released, judge>>

Break == Outcome(<<>>, boundDN, isSentBindDn, Stats, TRUE)

\* variant: the next packet is read while the body of the loop is still at
\* work on the previous one
ClientSendsAhead == pc \in {"loop", "iterated"} /\ nread < MaxMsgs

\* the client has a further message to send
ClientSends == pc = "loop" /\ nread < MaxMsgs

OpTag(p) == p.Children[2].Tag

\* lines 22-24: ber.ReadPacket returns io.EOF
ReadEOF == pc = "loop" /\ Commit(<<>>, "eof", Break)

\* lines 25-28: ber.ReadPacket returns another error
ReadError == pc = "loop" /\ Commit(<<>>, "error", Break)

\* lines 30-45: the packet fails the sanity check
SanityFail ==
    /\ ClientSends
    /\ \E p \in Envelopes :
        /\ ~SanityOK(p)
        /\ Commit(<<p>>, "packet", Break)

Unsupported ==
    /\ ClientSends
    /\ \E p \in Envelopes :
        /\ SanityOK(p)
        /\ OpTag(p) \notin RecognizedTags
        /\ \E out \in {UnsupportedCase(p, sendOk) : sendOk \in BOOLEAN} :
            Commit(<<p>>, "packet", out)

Bind ==
    /\ ClientSends
    /\ \E p \in Envelopes :
        /\ SanityOK(p)
        /\ OpTag(p) = ApplicationBindRequest
        /\ \E out \in {BindCase(p, code, sendOk, synCode, synSendOk) :
                          code \in ResultCodes, sendOk \in BOOLEAN,
                          synCode \in ResultCodes, synSendOk \in BOOLEAN} :
            Commit(<<p>>, "packet", out)

Search ==
    /\ ClientSends
    /\ \E p \in Envelopes :
        /\ SanityOK(p)
        /\ OpTag(p) = ApplicationSearchRequest
        /\ \E out \in {SearchCase(p, synCode, synSendOk, entries, err, sendOk) :
                          synCode \in ResultCodes, synSendOk \in BOOLEAN,
                          entries \in 0 .. MaxEntries, err \in SearchErrors,
                          sendOk \in BOOLEAN} :
            Commit(<<p>>, "packet", out)

Unbind ==
    /\ ClientSends
    /\ \E p \in Envelopes :
        /\ SanityOK(p)
        /\ OpTag(p) = ApplicationUnbindRequest
        /\ Commit(<<p>>, "packet", UnbindCase(p))

Abandon ==
    /\ ClientSends
    /\ \E p \in Envelopes :
        /\ SanityOK(p)
        /\ OpTag(p) = ApplicationAbandonRequest
        /\ \E out \in {AbandonCase(p, code) : code \in ResultCodes} :
            Commit(<<p>>, "packet", out)

\* a case that calls a chain and sends one response
Respond(requestTag, kind, responseTag) ==
    /\ ClientSends
    /\ \E p \in Envelopes :
        /\ SanityOK(p)
        /\ OpTag(p) = requestTag
        /\ \E out \in {ResponseCase(p, kind, responseTag, code, sendOk) :
                          code \in ResultCodes, sendOk \in BOOLEAN} :
            Commit(<<p>>, "packet", out)

Extended == Respond(ApplicationExtendedRequest, "extended", ApplicationExtendedResponse)
Add == Respond(ApplicationAddRequest, "add", ApplicationAddResponse)
Modify == Respond(ApplicationModifyRequest, "modify", ApplicationModifyResponse)
Delete == Respond(ApplicationDelRequest, "delete", ApplicationDelResponse)
ModifyDN == Respond(ApplicationModifyDNRequest, "modifydn", ApplicationModifyDNResponse)
Compare == Respond(ApplicationCompareRequest, "compare", ApplicationCompareResponse)

\* lines 20, 167: back to the top of the loop; the locals of the body go
\* out of scope
LoopBack ==
    /\ pc = "iterated"
    /\ pc' = "loop"
    /\ packet' = <<>>
    /\ iter' = <<>>
    /\ pre' = [boundDN |-> boundDN, isSentBindDn |-> isSentBindDn, hist |-> hist]
    /\ UNCHANGED judge
    /\ UNCHANGED <<boundDN, isSentBindDn, nread, hist, Stats,
                   visited, closeCalls, closeArg, released>>

\* lines 169-171: one round of the range loop over server.CloseFns (a Go
\* map: each key once, in no fixed order)
CallClose ==
    /\ pc = "close"
    /\ \E c \in CloseFns \ visited :
        /\ visited' = visited \cup {c}
        /\ closeCalls' = [closeCalls EXCEPT ![c] = @ + 1]
        /\ closeArg' = [closeArg EXCEPT ![c] = boundDN]
    /\ UNCHANGED judge
    /\ UNCHANGED <<boundDN, isSentBindDn, pc, nread, packet, iter, pre, hist,
                   Stats, released>>

\* variant: conn.Close() does not wait for the range loop
ConnCloseBeforeCloseFns ==
    /\ pc = "close"
    /\ released' = TRUE
    /\ pc' = "done"
    /\ UNCHANGED judge
    /\ UNCHANGED <<boundDN, isSentBindDn, nread, packet, iter, pre, hist, Stats,
                   visited, closeCalls, closeArg>>

\* line 173: conn.Close(), once the range loop is over
ConnClose ==
    /\ pc = "close"
    /\ visited = CloseFns
    /\ released' = TRUE
    /\ pc' = "done"
    /\ UNCHANGED judge
    /\ UNCHANGED <<boundDN, isSentBindDn, nread, packet, iter, pre, hist, Stats,
                   visited, closeCalls, closeArg>>

\* judgeBindDnIsEmpty is not being called on its own
NoJudgeCall == [p |-> <<>>, init |-> FALSE, result |-> FALSE, done |-> FALSE]

Hist0 == [synBinds |-> 0, cleanBind |-> FALSE, lastBind |-> "none",
          lastClientDN |-> NoIdentity]

Init ==
    /\ boundDN = ""
    /\ isSentBindDn = FALSE
    /\ pc = "loop"
    /\ nread = 0
    /\ packet = <<>>
    /\ iter = <<>>
    /\ pre = [boundDN |-> "", isSentBindDn |-> FALSE, hist |-> Hist0]
    /\ hist = Hist0
    /\ Stats = [Binds |-> 0, Searches |-> 0, Unbinds |-> 0]
    /\ visited = {}
    /\ closeCalls = [c \in CloseFns |-> 0]
    /\ closeArg = [c \in CloseFns |-> NoIdentity]
    /\ released = FALSE
    /\ judge = NoJudgeCall

Next ==
    \/ ReadEOF
    \/ ReadError
    \/ SanityFail
    \/ Unsupported
    \/ Search
    \/ Bind
    \/ Unbind
    \/ Extended
    \/ Abandon
    \/ Add
    \/ Modify
    \/ Delete
    \/ ModifyDN
    \/ Compare
    \/ LoopBack
    \/ CallClose
    \/ ConnClose

Spec == Init /\ [][Next]_vars

\* ------------------------------------- judgeBindDnIsEmpty on its own
\* nodes without children: the empty universal octet string, and nodes that
\* differ from it in the data, the class, the tag or the type
LeafNodes ==
    { NewString(ClassUniversal, TypePrimitive, TagOctetString, ""),
      NewString(ClassUniversal, TypePrimitive, TagOctetString, "x"),
      ContextPrimitive(0, ""),
      ContextPrimitive(TagOctetString, ""),
      Encode(ClassApplication, TypePrimitive, TagOctetString),
      Encode(ClassUniversal, TypePrimitive, TagInteger),
      Encode(ClassUniversal, TypeConstructed, TagOctetString) }

\* nodes that are given children
InnerNodes ==
    { Encode(ClassUniversal, TypeConstructed, TagSequence),
      Encode(ClassApplication, TypeConstructed, ApplicationBindRequest) }

RECURSIVE AppendChildren(_, _, _)
AppendChildren(p, children, k) ==
    IF k > Len(children) THEN p
    ELSE AppendChildren(AppendChild(p, children[k]), children, k + 1)

\* the packet trees of n nodes, and the sequences of trees of n nodes in all
RECURSIVE TreesOfSize(_)
RECURSIVE Forests(_)
TreesOfSize(n) ==
    IF n = 1 THEN LeafNodes
    ELSE {AppendChildren(p, f, 1) : p \in InnerNodes, f \in Forests(n - 1)}

Forests(n) ==
    IF n = 0 THEN {<<>>}
    ELSE UNION {{<<t>> \o f : t \in TreesOfSize(k), f \in Forests(n - k)} :
                    k \in 1 .. n}

\* the packets the bind case hands to judgeBindDnIsEmpty (line 85)
BindEnvelopes ==
    {p \in Envelopes : SanityOK(p) /\ OpTag(p) = ApplicationBindRequest}

\* the packets judgeBindDnIsEmpty is called on: all small trees, the client
\* binds, and synthetic binds with and without a name and a password
JudgeInputs ==
    UNION {TreesOfSize(n) : n \in 1 .. MaxNodes}
        \cup BindEnvelopes
        \cup {makeBindDnRequest(u, pw) : u \in {"", BindDn}, pw \in {"", BindPass}}

\* judgeBindDnIsEmpty(p, &result) is about to be called with *result = init
InitJudge ==
    /\ boundDN = ""
    /\ isSentBindDn = FALSE
    /\ pc = "loop"
    /\ nread = 0
    /\ packet = <<>>
    /\ iter = <<>>
    /\ pre = [boundDN |-> "", isSentBindDn |-> FALSE, hist |-> Hist0]
    /\ hist = Hist0
    /\ Stats = [Binds |-> 0, Searches |-> 0, Unbinds |-> 0]
    /\ visited = {}
    /\ closeCalls = [c \in CloseFns |-> 0]
    /\ closeArg = [c \in CloseFns |-> NoIdentity]
    /\ released = FALSE
    /\ judge \in {[p |-> <<t>>, init |-> b, result |-> b, done |-> FALSE] :
                      t \in JudgeInputs, b \in BOOLEAN}

\* lines 176-192: the call returns
Judge ==
    /\ judge.p # <<>>
    /\ ~judge.done
    /\ judge' = [judge EXCEPT !.result = judgeBindDnIsEmpty(judge.p[1], judge.init),
                              !.done = TRUE]
    /\ UNCHANGED <<boundDN, isSentBindDn, pc, nread, packet, iter, pre, hist,
                   Stats, visited, closeCalls, closeArg, released>>

NextJudge == Judge

SpecJudge == InitJudge /\ [][NextJudge]_vars


\* ------------------------------------------------------------ properties
\* this iteration read a packet that passed the sanity check
HasRequest == packet # <<>> /\ SanityOK(packet[1])

\* this iteration is for a request with operation tag tag
IterIs(tag) == HasRequest /\ OpTag(packet[1]) = tag

\* the loop has been left
Terminated == pc \in {"close", "done"}

\* the bind chain was called by sendBindDnRequest in this iteration
SynBindPositions == Positions(iter, IsSynBindChain)

IsClientBindResponse(e) ==
    e.ev = "send" /\ e.tag = ApplicationBindResponse /\ ~e.syn

\* this iteration called the bind chain for the client's bind and got code
ClientBindResult(code) ==
    \E i \in Positions(iter, IsClientBindChain) : iter[i].code = code

\* C1: the bind chain is called for the synthetic bind at most once in the
\* lifetime of a connection.
C1_AtMostOnceForwarding == hist.synBinds <= 1

\* C2: when no synthetic bind has been made yet and a client bind has
\* succeeded with a non-empty DN and no empty octet string in its request, a
\* search is dispatched without a synthetic bind.
C2_NoForwardAfterRealBind ==
    (IterIs(ApplicationSearchRequest) /\ pre.hist.synBinds = 0 /\ pre.hist.cleanBind)
        => SynBindPositions = {}

\* C3: when the first operation of a connection is a search, every call of
\* the search chain for it comes after exactly one synthetic bind chain
\* call, the only one so far on the connection.
C3_SearchFirstTrigger ==
    (IterIs(ApplicationSearchRequest) /\ nread = 1)
        => \A i \in Positions(iter, IsSearchChain) :
              /\ Cardinality({j \in SynBindPositions : j < i}) = 1
              /\ {j \in SynBindPositions : j > i} = {}
              /\ hist.synBinds = 1

C3_Witness ==
    /\ IterIs(ApplicationSearchRequest)
    /\ nread = 1
    /\ Positions(iter, IsSearchChain) # {}

\* the client's bind succeeded, its request node holds an empty universal
\* primitive octet string, and its bind response was sent without error
C4_Case ==
    /\ IterIs(ApplicationBindRequest)
    /\ ClientBindResult(LDAPResultSuccess)
    /\ judgeBindDnIsEmpty(packet[1].Children[2], FALSE)
    /\ \E i \in Positions(iter, IsClientBindResponse) : iter[i].ok

\* C4: in that case the synthetic bind is made exactly once for that bind,
\* after the client's bind response was sent and before any further read.
C4_EmptyCredentialTrigger ==
    C4_Case =>
        /\ Cardinality(SynBindPositions) = 1
        /\ \A j \in SynBindPositions :
              \E i \in Positions(iter, IsClientBindResponse) : i < j
        /\ Positions(iter, IsRead) = {1}
        /\ hist.synBinds = pre.hist.synBinds + 1

C4_Witness == C4_Case /\ pc = "iterated"

\* C5: a client bind whose chain reports a non-success code causes no
\* synthetic bind while it is processed.
C5_FailedBindNeverForwards ==
    (IterIs(ApplicationBindRequest) /\ ~ClientBindResult(LDAPResultSuccess))
        => SynBindPositions = {}

\* C6: a successful client bind whose bind-request node holds no empty
\* octet string causes no synthetic bind while it is processed, whatever
\* the other children of the envelope hold.
C6_PredicateOnRequestNodeOnly ==
    (/\ IterIs(ApplicationBindRequest)
     /\ ClientBindResult(LDAPResultSuccess)
     /\ ~judgeBindDnIsEmpty(packet[1].Children[2], FALSE))
        => SynBindPositions = {}


\* what C7 says of every state: a close collaborator is called only once the
\* loop is left, at most once, with the boundDN the loop ended with; the
\* connection is released only after all of them were called, each once
CloseOnce ==
    /\ \A c \in CloseFns :
          /\ closeCalls[c] <= 1
          /\ closeCalls[c] = 1 <=> c \in visited
          /\ c \in visited => Terminated /\ closeArg[c] = boundDN
    /\ released <=> pc = "done"
    /\ released => \A c \in CloseFns : closeCalls[c] = 1

\* what C7 says of every step taken once the loop is left: no chain call, no
\* send, no read, no change of the bound identity
QuietAfterExit ==
    Terminated => /\ Terminated'
                  /\ UNCHANGED <<boundDN, isSentBindDn, nread, packet, iter, hist>>

\* C7: on every path out of the loop each close collaborator is called
\* exactly once with the bound identity held at loop exit, the connection is
\* released only after that, and nothing is dispatched or sent afterwards.
C7_ExactlyOnceClose == [](CloseOnce) /\ [][QuietAfterExit]_vars

\* the connection is released after a bind left an identity and a later
\* send failed
C7_Witness ==
    /\ pc = "done"
    /\ boundDN # ""
    /\ \E i \in Positions(iter, IsSend) : ~iter[i].ok
    /\ \A c \in CloseFns : closeCalls[c] = 1 /\ closeArg[c] = boundDN

\* an unbind or an abandon was received
C8_Case == IterIs(ApplicationUnbindRequest) \/ IterIs(ApplicationAbandonRequest)

C8_State ==
    C8_Case =>
        /\ Positions(iter, IsSend) = {}
        /\ Positions(iter, IsRead) = {1}
        /\ Terminated
        /\ boundDN = pre.boundDN
        /\ IterIs(ApplicationUnbindRequest) => Positions(iter, IsChain) = {}
        /\ IterIs(ApplicationAbandonRequest) =>
              /\ Cardinality(Positions(iter, IsChain)) = 1
              /\ \A i \in Positions(iter, IsChain) :
                    iter[i].kind = "abandon" /\ iter[i].arg = pre.boundDN
        /\ \A c \in CloseFns :
              /\ closeCalls[c] <= 1
              /\ c \in visited => closeArg[c] = pre.boundDN
              /\ pc = "done" => closeCalls[c] = 1

\* C8: an unbind or abandon gets no response, ends the reading, and the
\* close collaborators are called exactly once with the identity that was
\* bound when it arrived.
C8_UnbindAbandonImmediacy ==
    [](C8_State) /\ [][C8_Case => (C8_Case' /\ nread' = nread /\ iter' = iter)]_vars

C8_Witness ==
    /\ IterIs(ApplicationAbandonRequest)
    /\ pre.boundDN # ""
    /\ pc = "done"
    /\ \E i \in Positions(iter, IsChain) : iter[i].code = LDAPResultSuccess

\* the first send after position i of this iteration: the response to the
\* chain call at i
ResponseTo(i) == {j \in Positions(iter, IsSend) :
                    j > i /\ \A k \in Positions(iter, IsSend) : k > i => j <= k}

\* the chain call at i reported a non-success code and its response was sent
FailedAndAnswered(i) ==
    /\ IsChain(iter[i])
    /\ iter[i].kind # "abandon"
    /\ iter[i].code # LDAPResultSuccess
    /\ \E j \in ResponseTo(i) : iter[j].ok

RespondKinds == {"extended", "add", "modify", "delete", "modifydn", "compare"}

C10_UnsupportedOperation ==
    (HasRequest /\ OpTag(packet[1]) \notin RecognizedTags) =>
        /\ Len(iter) = 2
        /\ IsRead(iter[1])
        /\ \E ok \in BOOLEAN :
              iter[2] = SendEv(ApplicationAddResponse, MessageIDOf(packet[1]),
                               LDAPResultOperationsError, ok, FALSE)
        /\ boundDN = pre.boundDN
        /\ isSentBindDn = pre.isSentBindDn
        /\ hist = pre.hist
        /\ Terminated

C10_Witness ==
    /\ HasRequest
    /\ OpTag(packet[1]) \notin RecognizedTags
    /\ iter[2].ok
    /\ pc = "done"

\* the message identifier the client put into this iteration's request
RequestID == packet[1].Children[1].Value.n

\* the sends of this iteration made by the loop itself / by sendBindDnRequest
OwnSends == {i \in Positions(iter, IsSend) : ~iter[i].syn}
SynSends == {i \in Positions(iter, IsSend) : iter[i].syn}

\* what C11 says of the addressing: a response of the loop carries the
\* identifier of the request being processed, the synthetic bind response
\* carries 0, unbind and abandon get none, nothing is sent without a request
Addressing ==
    /\ \A i \in OwnSends : HasRequest /\ iter[i].id = RequestID
    /\ \A i \in SynSends :
          HasRequest /\ iter[i].id = 0 /\ iter[i].tag = ApplicationBindResponse
    /\ C8_Case => Positions(iter, IsSend) = {}

\* C11 as stated: at most one response carries the identifier of the
\* request being processed, every other response is the synthetic bind
\* response with identifier 0, and no response carries another identifier.
C11_ResponseAddressing ==
    /\ Addressing
    /\ HasRequest =>
          Cardinality({i \in Positions(iter, IsSend) : iter[i].id = RequestID}) <= 1

\* C11 as amended: at most one response of the loop itself per request, and
\* at most one response carrying the request's identifier when that
\* identifier is not 0, the identifier of the synthetic bind response.
C11_ResponseAddressingAmended ==
    /\ Addressing
    /\ Cardinality(OwnSends) <= 1
    /\ Cardinality(SynSends) <= 1
    /\ (HasRequest /\ RequestID # 0) =>
          Cardinality({i \in Positions(iter, IsSend) : iter[i].id = RequestID}) <= 1

C11_Witness ==
    /\ HasRequest
    /\ RequestID = 1
    /\ OwnSends # {}
    /\ SynSends # {}

\* what C12 says of every state: the events of an iteration begin with its
\* one read, its responses are for the request read then, and at the top of
\* the loop nothing of an earlier message is left to do
OneMessageAtATime ==
    /\ iter # <<>> => IsRead(iter[1]) /\ Positions(iter, IsRead) = {1}
    /\ \A i \in OwnSends : HasRequest /\ iter[i].id = RequestID
    /\ pc = "loop" => iter = <<>> /\ packet = <<>>
    /\ pc = "iterated" => iter # <<>> /\ HasRequest

\* what C12 says of every step: a message is read only at the top of the
\* loop, and the calls and sends made for a message are all made before the
\* next step
ReadsAfterResponses ==
    /\ nread' # nread =>
          /\ pc = "loop"
          /\ iter = <<>>
          /\ nread' = nread + 1
          /\ iter' # <<>>
    /\ (iter # <<>> /\ iter' # iter) => (pc = "iterated" /\ pc' = "loop" /\ iter' = <<>>)

\* C12: message N+1 is read only after every handler call and every send
\* for message N is done, so responses are sent in the order of the
\* requests.
C12_StrictSequentiality == [](OneMessageAtATime) /\ [][ReadsAfterResponses]_vars

\* a second message gets a synthetic bind response and its own response
C12_Witness ==
    /\ nread = 2
    /\ pc = "iterated"
    /\ OwnSends # {}
    /\ SynSends # {}

\* the packet read has fewer than two children, or a first child that is
\* not an unsigned integer, or an operation node that is not of class
\* application
C13_Case ==
    /\ packet # <<>>
    /\ \/ Len(packet[1].Children) < 2
       \/ packet[1].Children[1].Value.type # "uint64"
       \/ packet[1].Children[2].ClassType # ClassApplication

\* C13: such a packet ends the loop with no response, no chain call, no
\* synthetic bind, and no change of boundDN or isSentBindDn.
C13_StructuralViolationsSilent ==
    C13_Case =>
        /\ iter = <<ReadEv("packet")>>
        /\ Terminated
        /\ boundDN = pre.boundDN
        /\ isSentBindDn = pre.isSentBindDn
        /\ hist = pre.hist

C13_Witness ==
    /\ C13_Case
    /\ Len(packet[1].Children) >= 2
    /\ packet[1].Children[2].ClassType # ClassApplication
    /\ pre.boundDN # ""
    /\ pc = "done"

\* the client's bind was given to the bind chain in this iteration
C14_Case == IterIs(ApplicationBindRequest) /\ Positions(iter, IsClientBindChain) # {}

\* exactly one bind response of the loop, carrying the chain's code and the
\* request's identifier, sent after the chain call and before any synthetic
\* bind
BindAnswered ==
    /\ Cardinality(OwnSends) = 1
    /\ \A j \in OwnSends :
          /\ iter[j].tag = ApplicationBindResponse
          /\ iter[j].id = RequestID
          /\ \A i \in Positions(iter, IsClientBindChain) :
                i < j /\ iter[j].code = iter[i].code
          /\ \A k \in SynBindPositions \cup SynSends : j < k
          /\ (~iter[j].ok) => (Terminated /\ j = Len(iter))

\* the chain reported success for a bind request whose name is not a string
MalformedBindDN ==
    /\ ClientBindResult(LDAPResultSuccess)
    /\ packet[1].Children[2].Children[2].Value.type # "string"

\* C14 as stated: every client bind given to the bind chain gets a bind
\* response with the chain's code and the request's identifier, before any
\* forwarding or termination.
C14_BindAlwaysAnswered == C14_Case => BindAnswered

\* C14 as amended: so it is, unless the chain reports success for a request
\* whose name is not a string; then the loop ends with no response.
C14_BindAnsweredAmended ==
    C14_Case =>
        IF MalformedBindDN
        THEN Positions(iter, IsSend) = {} /\ Terminated /\ SynBindPositions = {}
        ELSE BindAnswered

C14_Witness ==
    /\ C14_Case
    /\ ClientBindResult(LDAPResultSuccess)
    /\ ~MalformedBindDN
    /\ SynBindPositions # {}

\* the identity after the event at position k of this iteration, when it
\* was dn before: a client bind chain success gives the name of the request
\* (the zero value "" when that is no string), a synthetic bind chain
\* success gives the service username, nothing else changes it
IdentityAfterEvent(dn, k) ==
    IF IsClientBindChain(iter[k]) /\ iter[k].code = LDAPResultSuccess
    THEN (IF packet[1].Children[2].Children[2].Value.type = "string"
          THEN packet[1].Children[2].Children[2].Value.s ELSE "")
    ELSE IF IsSynBindChain(iter[k]) /\ iter[k].code = LDAPResultSuccess
    THEN BindDn
    ELSE dn

\* the identity after the first k events of this iteration
RECURSIVE IdentityAt(_)
IdentityAt(k) == IF k = 0 THEN pre.boundDN ELSE IdentityAfterEvent(IdentityAt(k - 1), k)

\* C15: the bound identity changes only when a bind chain call reports
\* success: to the DN of the request for the client's bind, not at all when
\* a client bind or a synthetic bind fails, and never by any other operation.
C15_IdentityChangesOnBindSuccessOnly ==
    /\ boundDN = IdentityAt(Len(iter))
    /\ (\A i \in Positions(iter, IsChain) :
            iter[i].kind = "bind" => iter[i].code # LDAPResultSuccess)
          => boundDN = pre.boundDN
    /\ (ClientBindResult(LDAPResultSuccess) /\ SynBindPositions = {} /\ ~MalformedBindDN)
          => boundDN = packet[1].Children[2].Children[2].Value.s

\* a client bind as another DN fails on a connection that is bound
C15_Witness ==
    /\ IterIs(ApplicationBindRequest)
    /\ pre.boundDN = "cn=alice"
    /\ packet[1].Children[2].Children[2].Value.s = "cn=bob"
    /\ ~ClientBindResult(LDAPResultSuccess)
    /\ boundDN = "cn=alice"
    /\ pc = "iterated"

\* the synthetic bind made at position k of this iteration succeeded: the
\* chain reported success and the bind response was sent
SynBindSucceeded(k) ==
    /\ iter[k].code = LDAPResultSuccess
    /\ \E j \in ResponseTo(k) : iter[j].syn /\ iter[j].ok

FlagFollowsSuccess ==
    /\ hist.synBinds = 0 => ~isSentBindDn
    /\ hist.synBinds > 0 => (isSentBindDn \/ Terminated)
    /\ \A k \in SynBindPositions :
          IF SynBindSucceeded(k)
          THEN isSentBindDn
          ELSE Terminated /\ isSentBindDn = pre.isSentBindDn

IsSearchDone(e) == IsSend(e) /\ e.tag = ApplicationSearchResultDone
IsEntries(e) == e.ev = "entries"

\* C17: every search dispatched to the search chain is followed, after the
\* entries the handler streamed, by exactly one search-done send carrying the
\* request's message id; its code is success when the handler returned no
\* error and the error's code otherwise, and after an error the loop is left
\* whether or not the send succeeded.
C17_SearchCompletion ==
    \A i \in Positions(iter, IsSearchChain) :
        /\ Positions(iter, IsSearchChain) = {i}
        /\ Positions(iter, IsEntries) = {i + 1}
        /\ Positions(iter, IsSearchDone) = {i + 2}
        /\ Len(iter) = i + 2
        /\ ~iter[i + 2].syn
        /\ iter[i + 2].id = RequestID
        /\ iter[i].ok => iter[i + 2].code = LDAPResultSuccess
        /\ ~iter[i].ok => iter[i + 2].code = iter[i].code /\ Terminated
        /\ (iter[i].ok /\ iter[i + 2].ok) => pc = "iterated"

\* a search handler error whose search-done is sent; the loop has been left
C17_Witness ==
    /\ \E i \in Positions(iter, IsSearchChain) :
          /\ ~iter[i].ok
          /\ iter[i].code = LDAPResultOperationsError
          /\ iter[i + 1].n = MaxEntries
          /\ iter[i + 2].ok
    /\ pc = "close"

\* the nodes of a packet tree
RECURSIVE Nodes(_)
Nodes(t) == {t} \cup UNION {Nodes(t.Children[i]) : i \in 1 .. Len(t.Children)}

\* universal class, primitive type, octet-string tag, no data
UniversalEmptyOctetString(n) ==
    /\ n.ClassType = ClassUniversal
    /\ n.TagType = TypePrimitive
    /\ n.Tag = TagOctetString
    /\ n.DataLen = 0

\* C18: judgeBindDnIsEmpty called with result false leaves it true iff some
\* node of the tree, the root or a descendant at any position, is a universal
\* primitive octet string with no data; called with result true it leaves it
\* true; an empty context-class string such as the password does not count.
C18_PredicateEvaluator ==
    judge.done =>
        LET t == judge.p[1]
        IN  /\ judge.init => judge.result
            /\ ~judge.init =>
                 (judge.result <=> \E n \in Nodes(t) : UniversalEmptyOctetString(n))
            /\ (~judge.init /\ t = makeBindDnRequest(BindDn, "")) => ~judge.result

\* the only empty octet string is a grandchild that is not a first child
C18_Witness ==
    /\ judge.done
    /\ ~judge.init
    /\ judge.result
    /\ LET t == judge.p[1]
       IN  /\ ~UniversalEmptyOctetString(t)
           /\ \A i \in 1 .. Len(t.Children) : ~UniversalEmptyOctetString(t.Children[i])
           /\ \E i \in 1 .. Len(t.Children) :
                 /\ Len(t.Children[i].Children) = 2
                 /\ ~UniversalEmptyOctetString(t.Children[i].Children[1])
                 /\ UniversalEmptyOctetString(t.Children[i].Children[2])

IsSynSend(e) == IsSend(e) /\ e.syn

\* the service username of the synthetic request reads back as a string
UsernameIsString == AssertString(bindDnPacket.Children[2].Children[2].Value).ok

\* C19: sendBindDnRequest reports success exactly when the synthetic bind
\* chain returned success, the username was read back as a string and the
\* bind response was sent; it always attempts exactly one bind-response send
\* carrying the chain's code; when it reports failure the loop is left at
\* once, so a search that triggered it is not handed to the search chain and
\* gets no search-done.
C19_ForwarderResult ==
    /\ Positions(iter, IsSynSend) = {k + 1 : k \in SynBindPositions}
    /\ \A k \in SynBindPositions :
          /\ iter[k + 1].tag = ApplicationBindResponse
          /\ iter[k + 1].code = iter[k].code
          /\ IF iter[k].code = LDAPResultSuccess /\ UsernameIsString /\ iter[k + 1].ok
             THEN /\ isSentBindDn
                  /\ IterIs(ApplicationSearchRequest) =>
                        Len(iter) > k + 1 /\ IsSearchChain(iter[k + 2])
                  /\ IterIs(ApplicationBindRequest) => pc = "iterated"
             ELSE /\ Terminated
                  /\ Len(iter) = k + 1
                  /\ Positions(iter, IsSearchChain) = {}
                  /\ Positions(iter, IsSearchDone) = {}

\* a search triggers a synthetic bind that the chain accepts but whose
\* response cannot be sent
C19_Witness ==
    /\ IterIs(ApplicationSearchRequest)
    /\ pc = "close"
    /\ \E k \in SynBindPositions :
          iter[k].code = LDAPResultSuccess /\ ~iter[k + 1].ok

\* the chain calls of this iteration that are given the bound identity
IdentityChainPositions == {k \in Positions(iter, IsChain) : iter[k].kind # "bind"}

\* a synthetic bind chain call reported success before position k of this
\* iteration
ForwardedBefore(k) == \E i \in SynBindPositions : i < k /\ iter[i].code = LDAPResultSuccess

\* C20: after a synthetic bind that succeeds the bound identity is the
\* configured service username (not the password, not a client's DN) and
\* every later chain call receives it, until a client bind succeeds, which
\* makes the identity that client's DN; the identity is always empty, the DN
\* of the latest successful client bind, or the service username.
C20_EffectiveIdentity ==
    /\ boundDN \in {"", hist.lastClientDN, BindDn}
    /\ hist.lastBind = "none" => boundDN = ""
    /\ hist.lastBind = "client" => boundDN = hist.lastClientDN
    /\ hist.lastBind = "syn" =>
          boundDN = BindDn /\ boundDN # BindPass /\ boundDN \notin ClientDNs
    /\ \A k \in IdentityChainPositions :
          iter[k].arg = IF ForwardedBefore(k) \/ pre.hist.lastBind = "syn" THEN BindDn
                        ELSE IF pre.hist.lastBind = "client" THEN pre.hist.lastClientDN
                        ELSE ""

\* an anonymous bind was forwarded, and a later modify is handed the service
\* username
C20_Witness ==
    /\ pre.hist.lastBind = "syn"
    /\ pre.hist.lastClientDN = ""
    /\ IterIs(ApplicationModifyRequest)
    /\ \E k \in IdentityChainPositions : iter[k].arg = BindDn
    /\ boundDN = BindDn
    /\ pc = "iterated"

====
